---- MODULE Spec2Model ----
(***************************************************************************)
(* The credential resolver (ValidateSessionToken), login and logout, the    *)
(* notification pipeline (createPost -> NotifCh ->                         *)
(* StartNotificationListener -> SaveUser) and the two requests on a user's *)
(* notification list (listNotificationsHandler, deleteNotificationHandler) *)
(* of rexlx/volconvo, package forum.                                       *)
(*                                                                         *)
(* Strings that the code parses (the Authorization header, e-mails, API    *)
(* keys) are sequences of one-character strings, so that strings.Split is  *)
(* computed and not assumed.  Time is a natural number; one unit is 24h    *)
(* and the zero time.Time (an unread notification's ReadAt) is 0, which    *)
(* the clock never shows.                                                  *)
(*                                                                         *)
(* The two Postgres tables the code reads and writes are the variables     *)
(* users and tokens.  They are storage outside the process: besides the    *)
(* program's own writes a row can disappear (DropUserRow, PurgeTokenRow),  *)
(* which is the case the "sql.ErrNoRows => return nil, nil" branches of    *)
(* db.go exist for.  A lookup of a missing row returns (nil, nil) through  *)
(* that branch; the same lookup with a query error returns (nil, err).     *)
(***************************************************************************)
EXTENDS Integers, Sequences, FiniteSets, TLC

\* ------------------------------------------------------------------ bounds
MaxHdrLen == 4      \* longest Authorization header tried
MaxTime == 3        \* the clock runs 1..MaxTime
MaxTokens == 1      \* session tokens ever issued by processLogin
MaxNotifs == 2      \* notifications ever sent on NotifCh
MaxReaders == 1     \* listNotificationsHandler requests ever made
MaxFaults == 1      \* failures of storage that change what happens next: a failed
                    \* write or fetch of the pipeline, a vanished row
MaxBurst == 2       \* createPost requests made beyond the capacity of NotifCh when
                    \* the channel is filled
MaxDeleters == 1    \* deleteNotificationHandler requests ever made
MaxCreators == 2    \* addUserHandler requests ever made

\* -------------------------------------------------------- program constants
TokenTTL == 1                     \* 24*time.Hour, in units of 24h
StatusUnauthorized == 401
StatusInternalServerError == 500
StatusSeeOther == 303
StatusOK == 200
StatusBadRequest == 400
StatusNotFound == 404
StatusMethodNotAllowed == 405
StatusCreated == 201
StatusConflict == 409
NotifChCap == 100                 \* make(chan Notification, 100)

\* ---------------------------------------------------------------- universe
Chars == {"a", ":"}
Headers == UNION {[1..n -> Chars] : n \in 0..MaxHdrLen}
Sessions == {"s1"}
UserIDs == {"u1", "u2"}
Passwords == {"p", "x"}
\* The database call that fails during a request, if any: the tokens query,
\* the users query, or none.
Faults == {"none", "token", "user"}
\* The same for createPost, which also looks the parent post up, refuses an
\* empty body and inserts the post.
PostFaults == Faults \cup {"post", "body", "insert"}

\* The rows the users table holds when the process starts.
InitialUsers ==
  [u \in UserIDs |->
     IF u = "u1"
       THEN [id |-> "u1", email |-> <<"a">>, key |-> <<"a", "a">>, handle |-> "h1",
             password |-> "p",
             notifications |-> <<>>]
       ELSE [id |-> "u2", email |-> <<"a", "a">>, key |-> <<"a">>, handle |-> "h2",
             password |-> "p",
             notifications |-> <<>>]]
Emails == {<<"a">>, <<"a", "a">>, <<"a", "a", "a">>}

\* (*User)(nil) and (*Token)(nil): records of the same shape as a row, so that
\* they compare with one.
NilUser == [id |-> "", email |-> <<>>, key |-> <<>>, handle |-> "", password |-> "",
            notifications |-> <<>>]
NilToken == [value |-> 0, userID |-> "", email |-> <<>>, expiresAt |-> 0]

VARIABLES
  users,      \* table users: id -> row (email UNIQUE)
  tokens,     \* table tokens: token value -> row
  session,    \* scs session store: session id -> value under key "token"
  now,        \* time.Now()
  issued,     \* number of token values generated so far (uuid.New is fresh)
  resp,       \* the request being answered: its inputs and its response
  posts,      \* table posts: post id (SERIAL, 1..) -> author id
  queue,      \* h.NotifCh, oldest first
  minted,     \* number of notification ids generated so far (uuid.New is fresh)
  disp,       \* the StartNotificationListener goroutine: its state, and
              \* the parity of the number of maintenance lines it printed
  saves,      \* the "go h.db.SaveUser(user)" goroutines that have not run yet
  readers,    \* the listNotificationsHandler requests: where each is, the
              \* user record it holds, and (for the properties) the list as
              \* it fetched it
  deleters,   \* the deleteNotificationHandler requests: where each is, the
              \* user its request's context carries, and what it answered
  creators,   \* the addUserHandler requests: where each is, the e-mail it
              \* carries, the user it built, and what it answered
  hist        \* the run's history: the notifications sent (enq), the ids
              \* whose append was written (appended), the ids ever written
              \* as read (everRead), whether a delivery began while an
              \* earlier delivery's write was still to run (overlap), the ids
              \* whose write by the dispatcher failed (lost), the ids whose
              \* deletion was answered with success (deleted); and what bounds
              \* the run: the storage failures so far (faults) and the number
              \* of notifications it sends at most (budget)

authVars == <<tokens, session, now, issued, resp>>
pipeVars == <<posts, queue, minted, disp, saves, readers, deleters, creators, hist>>
vars == <<users, tokens, session, now, issued, resp,
          posts, queue, minted, disp, saves, readers, deleters, creators, hist>>

\* ------------------------------------------------------------ strings.Split
HasColon(s) == \E i \in 1..Len(s) : s[i] = ":"
FirstColon(s) == CHOOSE i \in 1..Len(s) : s[i] = ":" /\ \A j \in 1..(i - 1) : s[j] # ":"

RECURSIVE Split(_)
Split(s) ==
  IF ~HasColon(s) THEN <<s>>
  ELSE LET i == FirstColon(s)
       IN <<SubSeq(s, 1, i - 1)>> \o Split(SubSeq(s, i + 1, Len(s)))

\* ------------------------------------------------------------------ db.go
\* GetTokenByValue: (row, nil), (nil, nil) on sql.ErrNoRows, (nil, err).
GetTokenByValue(tbl, value, dbErr) ==
  IF dbErr THEN [err |-> TRUE, isNil |-> TRUE, row |-> NilToken]
  ELSE IF value \in DOMAIN tbl THEN [err |-> FALSE, isNil |-> FALSE, row |-> tbl[value]]
  ELSE [err |-> FALSE, isNil |-> TRUE, row |-> NilToken]

\* GetUserByEmail: (row, nil), (nil, nil) on sql.ErrNoRows, (nil, err).
GetUserByEmail(tbl, email, dbErr) ==
  IF dbErr THEN [err |-> TRUE, isNil |-> TRUE, row |-> NilUser]
  ELSE IF \E u \in DOMAIN tbl : tbl[u].email = email
    THEN [err |-> FALSE, isNil |-> FALSE,
          row |-> tbl[CHOOSE u \in DOMAIN tbl : tbl[u].email = email]]
  ELSE [err |-> FALSE, isNil |-> TRUE, row |-> NilUser]

\* SaveToken: INSERT ... ON CONFLICT (id) DO UPDATE; a token's id and value are
\* both fresh uuids, so the row is keyed here by its value.
SaveToken(tbl, tk) == [v \in DOMAIN tbl \cup {tk.value} |-> IF v = tk.value THEN tk ELSE tbl[v]]

\* ------------------------------------------------------------- handlers.go
\* time.Time.Before
Before(t, u) == t < u

GetTokenFromSession(sess, s) ==
  IF s \in DOMAIN sess THEN [ok |-> TRUE, value |-> sess[s]] ELSE [ok |-> FALSE, value |-> 0]

\* h.Session.Remove(ctx, "token")
SessionRemove(sess, s) == [x \in DOMAIN sess \ {s} |-> sess[x]]
\* h.Session.Put(ctx, "token", v)
SessionPut(sess, s, v) == [x \in DOMAIN sess \cup {s} |-> IF x = s THEN v ELSE sess[x]]

\* What a run of the middleware leaves: the error status written (0 if none),
\* how often next was invoked and with which user in the context, whether the
\* handler panicked, whether the session entry existed when next ran, and the
\* session store afterwards.
Served(user, sess, s) ==
  [status |-> 0, nextCalls |-> 1, ctxUser |-> user, panicked |-> FALSE,
   sessionAtNext |-> s \in DOMAIN sess, sess |-> sess]
Failed(code, sess) ==
  [status |-> code, nextCalls |-> 0, ctxUser |-> NilUser, panicked |-> FALSE,
   sessionAtNext |-> FALSE, sess |-> sess]
Panicked(sess) ==
  [status |-> 0, nextCalls |-> 0, ctxUser |-> NilUser, panicked |-> TRUE,
   sessionAtNext |-> FALSE, sess |-> sess]

\* Mutants of ApiKeyBranch: an absent header is refused; a refused key is let
\* through as a guest.
ApiKeyBranch_AbsentRefused(usrs, sess, s, hdr, usrErr) ==
  LET parts == Split(hdr)
  IN IF hdr # <<>> /\ Len(parts) # 2 THEN Served(NilUser, sess, s)
     ELSE LET g == GetUserByEmail(usrs, parts[1], usrErr)
          IN IF hdr = <<>> \/ g.err \/ g.isNil \/ g.row.key # parts[2]
               THEN Failed(StatusUnauthorized, sess)
               ELSE Served(g.row, sess, s)
ApiKeyBranch_Downgrades(usrs, sess, s, hdr, usrErr) ==
  LET parts == Split(hdr)
  IN IF hdr = <<>> \/ Len(parts) # 2 THEN Served(NilUser, sess, s)
     ELSE LET g == GetUserByEmail(usrs, parts[1], usrErr)
          IN IF g.err \/ g.isNil THEN Failed(StatusUnauthorized, sess)
             ELSE IF g.row.key # parts[2] THEN Served(NilUser, sess, s)
             ELSE Served(g.row, sess, s)

\* handlers.go 268-283: no session token, check for API key.
ApiKeyBranch(usrs, sess, s, hdr, usrErr) ==
  LET parts == Split(hdr)
  IN IF hdr = <<>> \/ Len(parts) # 2 THEN Served(NilUser, sess, s)
     ELSE LET g == GetUserByEmail(usrs, parts[1], usrErr)
          IN IF g.err \/ g.isNil \/ g.row.key # parts[2]
               THEN Failed(StatusUnauthorized, sess)
               ELSE Served(g.row, sess, s)

\* Mutant of SessionBranch: a failed load of the token's user is let through
\* as a guest.
SessionBranch_UserErrorAnonymous(usrs, toks, sess, t, s, value, tokErr, usrErr) ==
  LET tk == GetTokenByValue(toks, value, tokErr)
  IN IF ~tk.err /\ tk.isNil THEN Panicked(sess)
     ELSE IF tk.err \/ Before(tk.row.expiresAt, t)
       THEN Served(NilUser, SessionRemove(sess, s), s)
     ELSE LET g == GetUserByEmail(usrs, tk.row.email, usrErr)
          IN IF g.err THEN Served(NilUser, sess, s)
             ELSE Served(g.row, sess, s)

\* handlers.go 286-301: the session holds a token value.
SessionBranch(usrs, toks, sess, t, s, value, tokErr, usrErr) ==
  LET tk == GetTokenByValue(toks, value, tokErr)
  IN IF ~tk.err /\ tk.isNil THEN Panicked(sess)   \* tk.ExpiresAt on a nil *Token
     ELSE IF tk.err \/ Before(tk.row.expiresAt, t)
       THEN Served(NilUser, SessionRemove(sess, s), s)
     ELSE LET g == GetUserByEmail(usrs, tk.row.email, usrErr)
          IN IF g.err THEN Failed(StatusInternalServerError, sess)
             ELSE Served(g.row, sess, s)          \* g.row is NilUser on no rows

\* Mutant of ValidateSessionToken: a session that resolves no user falls back
\* to the API key.
ValidateSessionToken_HeaderFallback(usrs, toks, sess, t, s, hdr, tokErr, usrErr) ==
  LET g == GetTokenFromSession(sess, s)
      r == SessionBranch(usrs, toks, sess, t, s, g.value, tokErr, usrErr)
  IN IF ~g.ok THEN ApiKeyBranch(usrs, sess, s, hdr, usrErr)
     ELSE IF r.nextCalls = 1 /\ r.ctxUser = NilUser
       THEN ApiKeyBranch(usrs, r.sess, s, hdr, usrErr)
     ELSE r

\* handlers.go 264-303
ValidateSessionToken(usrs, toks, sess, t, s, hdr, tokErr, usrErr) ==
  LET g == GetTokenFromSession(sess, s)
  IN IF ~g.ok THEN ApiKeyBranch(usrs, sess, s, hdr, usrErr)
     ELSE SessionBranch(usrs, toks, sess, t, s, g.value, tokErr, usrErr)

\* The record of a request that went through the middleware (for a login:
\* through processLogin, form being the e-mail and the password posted and
\* whether SaveToken failed).
Response(op, s, hdr, tokErr, usrErr, r) ==
  [op |-> op, session |-> s, header |-> hdr, at |-> now,
   hadToken |-> s \in DOMAIN session,
   tkFound |-> s \in DOMAIN session /\ session[s] \in DOMAIN tokens,
   tk |-> IF s \in DOMAIN session /\ session[s] \in DOMAIN tokens
            THEN tokens[session[s]] ELSE NilToken,
   tokErr |-> tokErr, usrErr |-> usrErr,
   status |-> r.status, nextCalls |-> r.nextCalls, ctxUser |-> r.ctxUser,
   panicked |-> r.panicked, sessionAtNext |-> r.sessionAtNext,
   sessionAfter |-> s \in DOMAIN r.sess, form |-> <<>>]

NoResponse ==
  [op |-> "none", session |-> "", header |-> <<>>, at |-> 0, hadToken |-> FALSE,
   tkFound |-> FALSE, tk |-> NilToken, tokErr |-> FALSE, usrErr |-> FALSE,
   status |-> 0, nextCalls |-> 0, ctxUser |-> NilUser, panicked |-> FALSE,
   sessionAtNext |-> FALSE, sessionAfter |-> FALSE, form |-> <<>>]

\* The HTTP requests of this specification are served one after the other:
\* a handler runs when no response is outstanding, and Complete ends it.
Idle == resp.op = "none"

\* The response goes out and the request is over (LoadAndSave returns).
Complete ==
  /\ ~Idle
  /\ resp' = NoResponse
  /\ UNCHANGED <<users, tokens, session, now, issued, pipeVars>>

\* A request to a route registered behind ValidateSessionToken (/topics, /topics/).
Request(s, hdr, tokErr, usrErr) ==
  LET r == ValidateSessionToken(users, tokens, session, now, s, hdr, tokErr, usrErr)
  IN /\ Idle
     /\ resp' = Response("validate", s, hdr, tokErr, usrErr, r)
     /\ session' = r.sess
     /\ UNCHANGED <<users, tokens, now, issued, pipeVars>>

\* user.go 35-51: a fresh token value, ExpiresAt = now + ttl.
CreateToken(userID, ttl) ==
  [value |-> issued + 1, userID |-> userID, email |-> <<>>, expiresAt |-> now + ttl]

\* Mutant of ProcessLogin: the token is saved without the user's e-mail
\* (line 373 left out).
ProcessLogin_NoEmail(s, email, password, usrErr, saveErr) ==
  LET g == GetUserByEmail(users, email, usrErr)
      tk == CreateToken(g.row.id, TokenTTL)
      done(code, sess) ==
        [Response("login", s, <<>>, FALSE, usrErr, [Failed(code, sess) EXCEPT !.sess = sess])
           EXCEPT !.form = <<email, password, saveErr>>]
  IN /\ Idle
     /\ issued < MaxTokens
     /\ UNCHANGED <<users, now, pipeVars>>
     /\ IF g.err \/ g.isNil \/ g.row.password # password
          THEN /\ resp' = done(0, session)
               /\ UNCHANGED <<tokens, session, issued>>
        ELSE IF saveErr
          THEN /\ resp' = done(StatusInternalServerError, session)
               /\ issued' = issued + 1
               /\ UNCHANGED <<tokens, session>>
        ELSE /\ tokens' = SaveToken(tokens, tk)
             /\ session' = SessionPut(session, s, tk.value)
             /\ issued' = issued + 1
             /\ resp' = done(StatusSeeOther, session')

\* handlers.go 337-387.  saveErr: SaveToken fails.
ProcessLogin(s, email, password, usrErr, saveErr) ==
  LET g == GetUserByEmail(users, email, usrErr)
      tk == [CreateToken(g.row.id, TokenTTL) EXCEPT !.email = g.row.email]
      done(code, sess) ==
        [Response("login", s, <<>>, FALSE, usrErr, [Failed(code, sess) EXCEPT !.sess = sess])
           EXCEPT !.form = <<email, password, saveErr>>]
  IN /\ Idle
     /\ issued < MaxTokens
     /\ UNCHANGED <<users, now, pipeVars>>
     /\ IF g.err \/ g.isNil \/ g.row.password # password
          THEN /\ resp' = done(0, session)             \* the login page again
               /\ UNCHANGED <<tokens, session, issued>>
        ELSE IF saveErr
          THEN /\ resp' = done(StatusInternalServerError, session)
               /\ issued' = issued + 1
               /\ UNCHANGED <<tokens, session>>
        ELSE /\ tokens' = SaveToken(tokens, tk)
             /\ session' = SessionPut(session, s, tk.value)
             /\ issued' = issued + 1
             /\ resp' = done(StatusSeeOther, session')

\* Mutant of HandleLogout: the session's token is also deleted from the tokens
\* table.
HandleLogout_RevokesToken(s) ==
  /\ Idle
  /\ session' = SessionRemove(session, s)
  /\ tokens' = IF s \in DOMAIN session
                THEN [v \in DOMAIN tokens \ {session[s]} |-> tokens[v]] ELSE tokens
  /\ resp' = Response("logout", s, <<>>, FALSE, FALSE,
                      [Failed(StatusSeeOther, session') EXCEPT !.sess = session'])
  /\ UNCHANGED <<users, now, issued, pipeVars>>

\* handlers.go 389-392
HandleLogout(s) ==
  /\ Idle
  /\ session' = SessionRemove(session, s)
  /\ resp' = Response("logout", s, <<>>, FALSE, FALSE,
                      [Failed(StatusSeeOther, session') EXCEPT !.sess = session'])
  /\ UNCHANGED <<users, tokens, now, issued, pipeVars>>

\* Time passes.
AdvanceClock ==
  /\ Idle
  /\ now < MaxTime
  /\ now' = now + 1
  /\ UNCHANGED <<users, tokens, session, issued, resp, pipeVars>>

\* A row leaves a table (storage is outside the process).
PurgeTokenRow(v) ==
  /\ Idle
  /\ v \in DOMAIN tokens
  /\ hist.faults < MaxFaults
  /\ tokens' = [x \in DOMAIN tokens \ {v} |-> tokens[x]]
  /\ hist' = [hist EXCEPT !.faults = @ + 1]
  /\ UNCHANGED <<users, session, now, issued, resp, posts, queue, minted, disp, saves, readers, deleters, creators>>

DropUserRow(u) ==
  /\ Idle
  /\ disp.state = "running"
  /\ u \in DOMAIN users
  /\ hist.faults < MaxFaults
  /\ users' = [x \in DOMAIN users \ {u} |-> users[x]]
  /\ hist' = [hist EXCEPT !.faults = @ + 1]
  /\ UNCHANGED <<authVars, posts, queue, minted, disp, saves, readers, deleters, creators>>

\* ------------------------------------------------- the notification pipeline
\* Mutant of SaveUser: the statement does not carry the key.
SaveUser_OmitsKey(tbl, u, dbErr) ==
  IF dbErr THEN [err |-> TRUE, tbl |-> tbl]
  ELSE IF \E x \in DOMAIN tbl : tbl[x].email = u.email
    THEN LET x == CHOOSE y \in DOMAIN tbl : tbl[y].email = u.email
         IN [err |-> FALSE,
             tbl |-> [tbl EXCEPT ![x] = [u EXCEPT !.id = tbl[x].id, !.key = <<>>]]]
  ELSE IF u.id \in DOMAIN tbl THEN [err |-> TRUE, tbl |-> tbl]
  ELSE [err |-> FALSE, tbl |-> [x \in DOMAIN tbl \cup {u.id} |-> IF x = u.id THEN u ELSE tbl[x]]]

\* db.go 189-220: INSERT ... ON CONFLICT (email) DO UPDATE SET key, handle,
\* hash, password, updated_at, admin, notifications.  The row with the same
\* e-mail keeps its id and takes every other column of u; a new e-mail is
\* inserted under u.id, which the primary key refuses if the id is taken.
SaveUser(tbl, u, dbErr) ==
  IF dbErr THEN [err |-> TRUE, tbl |-> tbl]
  ELSE IF \E x \in DOMAIN tbl : tbl[x].email = u.email
    THEN LET x == CHOOSE y \in DOMAIN tbl : tbl[y].email = u.email
         IN [err |-> FALSE, tbl |-> [tbl EXCEPT ![x] = [u EXCEPT !.id = tbl[x].id]]]
  ELSE IF u.id \in DOMAIN tbl THEN [err |-> TRUE, tbl |-> tbl]
  ELSE [err |-> FALSE, tbl |-> [x \in DOMAIN tbl \cup {u.id} |-> IF x = u.id THEN u ELSE tbl[x]]]

\* db.go 313-349
GetUserByID(tbl, id, dbErr) ==
  IF dbErr THEN [err |-> TRUE, isNil |-> TRUE, row |-> NilUser]
  ELSE IF id \in DOMAIN tbl THEN [err |-> FALSE, isNil |-> FALSE, row |-> tbl[id]]
  ELSE [err |-> FALSE, isNil |-> TRUE, row |-> NilUser]

\* db.go 169-178
GetPost(tbl, id, dbErr) ==
  IF dbErr THEN [err |-> TRUE, isNil |-> TRUE, authorID |-> ""]
  ELSE IF id \in DOMAIN tbl THEN [err |-> FALSE, isNil |-> FALSE, authorID |-> tbl[id]]
  ELSE [err |-> FALSE, isNil |-> TRUE, authorID |-> ""]

\* The ids of the notifications of a list that are read.
ReadIDs(list) == {list[i].id : i \in {j \in 1..Len(list) : list[j].readAt # 0}}
PersistedRead(tbl) == UNION {ReadIDs(tbl[u].notifications) : u \in DOMAIN tbl}

\* Mutants of CreatePost: the send does not wait for room in the channel; a
\* full channel makes the handler skip the send and go on.
CreatePost_NoBackpressure(s, parent, fault) ==
  LET g == GetTokenFromSession(session, s)
      tk == GetTokenByValue(tokens, g.value, fault = "token")
      usr == GetUserByEmail(users, tk.row.email, fault = "user")
      par == GetPost(posts, parent, fault = "post")
      sends == /\ g.ok /\ ~tk.err /\ ~tk.isNil
               /\ ~usr.err /\ ~usr.isNil
               /\ ~par.err /\ ~par.isNil
      notif == [id |-> minted + 1, userID |-> par.authorID, readAt |-> 0]
  IN /\ disp.state = "running"
     /\ minted < hist.budget
     /\ IF ~sends THEN UNCHANGED vars
        ELSE /\ queue' = Append(queue, notif)
             /\ minted' = minted + 1
             /\ hist' = [hist EXCEPT !.enq = Append(@, notif)]
             /\ posts' = IF fault \in {"body", "insert"}
                           THEN posts ELSE Append(posts, usr.row.id)
             /\ UNCHANGED <<users, authVars, disp, saves, readers, deleters, creators>>
CreatePost_DropsWhenFull(s, parent, fault) ==
  LET g == GetTokenFromSession(session, s)
      tk == GetTokenByValue(tokens, g.value, fault = "token")
      usr == GetUserByEmail(users, tk.row.email, fault = "user")
      par == GetPost(posts, parent, fault = "post")
      sends == /\ g.ok /\ ~tk.err /\ ~tk.isNil
               /\ ~usr.err /\ ~usr.isNil
               /\ ~par.err /\ ~par.isNil
      notif == [id |-> minted + 1, userID |-> par.authorID, readAt |-> 0]
      full == Len(queue) >= NotifChCap
  IN /\ disp.state = "running"
     /\ minted < hist.budget
     /\ IF ~sends THEN UNCHANGED vars
        ELSE /\ queue' = IF full THEN queue ELSE Append(queue, notif)
             /\ minted' = minted + 1
             /\ hist' = IF full THEN hist ELSE [hist EXCEPT !.enq = Append(@, notif)]
             /\ posts' = IF fault \in {"body", "insert"}
                           THEN posts ELSE Append(posts, usr.row.id)
             /\ UNCHANGED <<users, authVars, disp, saves, readers, deleters, creators>>

\* handlers.go 521-591.  The handler reads the session's token and its user,
\* looks the parent post up, sends the notification for the parent's author on
\* NotifCh (a send that waits while the channel is full) and only then checks
\* the body and inserts the post.  Every return and panic before the send
\* leaves the state as it is.
CreatePost(s, parent, fault) ==
  LET g == GetTokenFromSession(session, s)
      tk == GetTokenByValue(tokens, g.value, fault = "token")
      usr == GetUserByEmail(users, tk.row.email, fault = "user")
      par == GetPost(posts, parent, fault = "post")
      sends == /\ g.ok /\ ~tk.err /\ ~tk.isNil     \* else 500, or panic on tk.Email
               /\ ~usr.err /\ ~usr.isNil           \* else 500, or panic on user.Handle
               /\ ~par.err /\ ~par.isNil           \* else 500, or panic on postId.AuthorID
      notif == [id |-> minted + 1, userID |-> par.authorID, readAt |-> 0]
  IN /\ disp.state = "running"
     /\ minted < hist.budget
     /\ IF ~sends THEN UNCHANGED vars
        ELSE /\ Len(queue) < NotifChCap
             /\ queue' = Append(queue, notif)
             /\ minted' = minted + 1
             /\ hist' = [hist EXCEPT !.enq = Append(@, notif)]
             /\ posts' = IF fault \in {"body", "insert"}   \* 400, 500
                           THEN posts ELSE Append(posts, usr.row.id)
             /\ UNCHANGED <<users, authVars, disp, saves, readers, deleters, creators>>

\* A query or a statement may fail while the bound on failures allows it.
MayFail(dbErr) == dbErr => hist.faults < MaxFaults

\* Mutant of Deliver: the newest notification is taken, not the oldest.
Deliver_TakesNewest(err) ==
  LET notif == queue[Len(queue)]
      g == GetUserByID(users, notif.userID, err)
      user == [g.row EXCEPT !.notifications = Append(@, notif)]
  IN /\ disp.state = "running"
     /\ queue # <<>>
     /\ MayFail(err)
     /\ queue' = SubSeq(queue, 1, Len(queue) - 1)
     /\ IF notif.userID = ""
          THEN UNCHANGED <<disp, saves, hist>>
        ELSE IF g.err
          THEN /\ hist' = [hist EXCEPT !.faults = @ + 1]
               /\ UNCHANGED <<disp, saves>>
        ELSE IF g.isNil
          THEN /\ disp' = [disp EXCEPT !.state = "crashed"]
               /\ UNCHANGED <<saves, hist>>
        ELSE /\ saves' = saves \cup {user}
             /\ hist' = [hist EXCEPT !.overlap = @ \/ saves # {}]
             /\ UNCHANGED disp
     /\ UNCHANGED <<users, authVars, posts, minted, readers, deleters, creators>>

\* Mutant of Deliver: a notification with no recipient is handled like any
\* other.
Deliver_NoEmptyCheck(err) ==
  LET notif == Head(queue)
      g == GetUserByID(users, notif.userID, err)
      user == [g.row EXCEPT !.notifications = Append(@, notif)]
  IN /\ disp.state = "running"
     /\ queue # <<>>
     /\ MayFail(err)
     /\ queue' = Tail(queue)
     /\ IF g.err
          THEN /\ hist' = [hist EXCEPT !.faults = @ + 1]
               /\ UNCHANGED <<disp, saves>>
        ELSE IF g.isNil
          THEN /\ disp' = [disp EXCEPT !.state = "crashed"]
               /\ UNCHANGED <<saves, hist>>
        ELSE /\ saves' = saves \cup {user}
             /\ hist' = [hist EXCEPT !.overlap = @ \/ saves # {}]
             /\ UNCHANGED disp
     /\ UNCHANGED <<users, authVars, posts, minted, readers, deleters, creators>>

\* Mutant of Deliver: the notification is read off the channel and left in it.
Deliver_LeavesQueued(err) ==
  LET notif == Head(queue)
      g == GetUserByID(users, notif.userID, err)
      user == [g.row EXCEPT !.notifications = Append(@, notif)]
  IN /\ disp.state = "running"
     /\ queue # <<>>
     /\ MayFail(err)
     /\ queue' = queue
     /\ IF notif.userID = ""
          THEN UNCHANGED <<disp, saves, hist>>
        ELSE IF g.err
          THEN /\ hist' = [hist EXCEPT !.faults = @ + 1]
               /\ UNCHANGED <<disp, saves>>
        ELSE IF g.isNil
          THEN /\ disp' = [disp EXCEPT !.state = "crashed"]
               /\ UNCHANGED <<saves, hist>>
        ELSE /\ saves' = saves \cup {user}
             /\ hist' = [hist EXCEPT !.overlap = @ \/ saves # {}]
             /\ UNCHANGED disp
     /\ UNCHANGED <<users, authVars, posts, minted, readers, deleters, creators>>

\* handlers.go 626-637: one delivery of the select loop.  err: GetUserByID fails.
\* A recipient with no row comes back as (nil, nil), and line 633 dereferences
\* it: the goroutine panics and, nothing recovering it, the process ends.
Deliver(err) ==
  LET notif == Head(queue)
      g == GetUserByID(users, notif.userID, err)
      user == [g.row EXCEPT !.notifications = Append(@, notif)]
  IN /\ disp.state = "running"
     /\ queue # <<>>
     /\ MayFail(err)
     /\ queue' = Tail(queue)
     /\ IF notif.userID = ""
          THEN UNCHANGED <<disp, saves, hist>>
        ELSE IF g.err
          THEN /\ hist' = [hist EXCEPT !.faults = @ + 1]
               /\ UNCHANGED <<disp, saves>>
        ELSE IF g.isNil
          THEN /\ disp' = [disp EXCEPT !.state = "crashed"]
               /\ UNCHANGED <<saves, hist>>
        ELSE /\ saves' = saves \cup {user}
             /\ hist' = [hist EXCEPT !.overlap = @ \/ saves # {}]
             /\ UNCHANGED disp
     /\ UNCHANGED <<users, authVars, posts, minted, readers, deleters, creators>>

\* Mutant of AsyncSaveUser: a write that failed is tried again.
AsyncSaveUser_Retries(user, dbErr) ==
  LET w == SaveUser(users, user, dbErr)
      n == user.notifications[Len(user.notifications)]
  IN /\ disp.state = "running"
     /\ user \in saves
     /\ MayFail(dbErr)
     /\ saves' = IF w.err THEN saves ELSE saves \ {user}
     /\ users' = w.tbl
     /\ hist' = IF w.err THEN [hist EXCEPT !.faults = @ + 1, !.lost = @ \cup {n.id}]
                ELSE [hist EXCEPT !.appended = @ \cup {n.id},
                                  !.everRead = @ \cup PersistedRead(w.tbl)]
     /\ UNCHANGED <<authVars, posts, queue, minted, disp, readers, deleters, creators>>

\* handlers.go 634: a "go h.db.SaveUser(user)" goroutine runs.
AsyncSaveUser(user, dbErr) ==
  LET w == SaveUser(users, user, dbErr)
      n == user.notifications[Len(user.notifications)]
  IN /\ disp.state = "running"
     /\ user \in saves
     /\ MayFail(dbErr)
     /\ saves' = saves \ {user}
     /\ users' = w.tbl
     /\ hist' = IF w.err THEN [hist EXCEPT !.faults = @ + 1, !.lost = @ \cup {n.id}]
                ELSE [hist EXCEPT !.appended = @ \cup {n.id},
                                  !.everRead = @ \cup PersistedRead(w.tbl)]
     /\ UNCHANGED <<authVars, posts, queue, minted, disp, readers, deleters, creators>>

\* Mutant of MaintenanceTick: the ticker is looked at only when a notification
\* is waiting.
MaintenanceTick_NeedsNotification ==
  /\ disp.state = "running"
  /\ queue # <<>>
  /\ disp' = [disp EXCEPT !.tick = 1 - @]
  /\ UNCHANGED <<users, authVars, posts, queue, minted, saves, readers, deleters, creators, hist>>

\* handlers.go 638-640: the ticker's branch of the select loop prints a line
\* and touches nothing else.
MaintenanceTick ==
  /\ disp.state = "running"
  /\ disp' = [disp EXCEPT !.tick = 1 - @]
  /\ UNCHANGED <<users, authVars, posts, queue, minted, saves, readers, deleters, creators, hist>>

\* main.go 49-51: ListenAndServe returns and log.Fatalf ends the process, the
\* only end of the dispatcher's loop besides a panic.  The goroutines that
\* have not run yet end with it.
Shutdown ==
  /\ disp.state = "running"
  /\ disp' = [disp EXCEPT !.state = "stopped"]
  /\ UNCHANGED <<users, authVars, posts, queue, minted, saves, readers, deleters, creators, hist>>

\* Mutant of MarkAllRead: every notification is stamped, read or not.
MarkAllRead_Restamps(list, t) == [i \in 1..Len(list) |-> [list[i] EXCEPT !.readAt = t]]

\* handlers.go 134-139
MarkAllRead(list, t) ==
  [i \in 1..Len(list) |-> IF list[i].readAt = 0 THEN [list[i] EXCEPT !.readAt = t] ELSE list[i]]

\* handlers.go 113-139: request i resolves the session's user and marks its
\* copy of the list.  Redirects to /login and panics (a nil token or a nil
\* user dereferenced) end the request with nothing written.
ListFetch(i, s, fault) ==
  LET g == GetTokenFromSession(session, s)
      tk == GetTokenByValue(tokens, g.value, fault = "token")
      usr == GetUserByEmail(users, tk.row.email, fault = "user")
      loads == /\ g.ok /\ ~tk.err /\ ~tk.isNil /\ ~Before(tk.row.expiresAt, now)
               /\ ~usr.err /\ ~usr.isNil
      marked == MarkAllRead(usr.row.notifications, now)
  IN /\ disp.state = "running"
     /\ readers[i].pc = "new"
     /\ \A j \in 1..(i - 1) : readers[j].pc # "new"
     /\ readers' = [readers EXCEPT ![i] =
          IF loads /\ marked # usr.row.notifications
            THEN [pc |-> "saving", user |-> [usr.row EXCEPT !.notifications = marked],
                  seen |-> usr.row.notifications]
            ELSE [pc |-> "done", user |-> NilUser, seen |-> <<>>]]
     /\ UNCHANGED <<users, authVars, posts, queue, minted, disp, saves, deleters, creators, hist>>

\* handlers.go 141-155: the changed copy is written back, then the page renders.
ListSave(i, dbErr) ==
  LET w == SaveUser(users, readers[i].user, dbErr)
  IN /\ disp.state = "running"
     /\ readers[i].pc = "saving"
     /\ MayFail(dbErr)
     /\ users' = w.tbl
     /\ readers' = [readers EXCEPT ![i] = [pc |-> "done", user |-> NilUser, seen |-> <<>>]]
     /\ hist' = IF w.err THEN [hist EXCEPT !.faults = @ + 1]
                ELSE [hist EXCEPT !.everRead = @ \cup PersistedRead(w.tbl)]
     /\ UNCHANGED <<authVars, posts, queue, minted, disp, saves, deleters, creators>>

\* ------------------------------------------------- deleting a notification
\* Mutants of DeleteNotificationHandler: only the entry asked for is kept; an
\* id that is not in the list is answered with success, after a write.
DeleteNotificationHandler_KeepsMatch(tbl, method, ctx, badForm, id, dbErr) ==
  LET found == \E k \in 1..Len(ctx.notifications) : ctx.notifications[k].id = id
      updated == SelectSeq(ctx.notifications, LAMBDA n : n.id = id)
      w == SaveUser(tbl, [ctx EXCEPT !.notifications = updated], dbErr)
  IN IF method # "POST" THEN [status |-> StatusMethodNotAllowed, wrote |-> FALSE, tbl |-> tbl]
     ELSE IF ctx = NilUser THEN [status |-> StatusUnauthorized, wrote |-> FALSE, tbl |-> tbl]
     ELSE IF badForm \/ id = 0 THEN [status |-> StatusBadRequest, wrote |-> FALSE, tbl |-> tbl]
     ELSE IF ~found THEN [status |-> StatusNotFound, wrote |-> FALSE, tbl |-> tbl]
     ELSE IF w.err THEN [status |-> StatusInternalServerError, wrote |-> TRUE, tbl |-> w.tbl]
     ELSE [status |-> StatusOK, wrote |-> TRUE, tbl |-> w.tbl]
DeleteNotificationHandler_NoFoundCheck(tbl, method, ctx, badForm, id, dbErr) ==
  LET updated == SelectSeq(ctx.notifications, LAMBDA n : n.id # id)
      w == SaveUser(tbl, [ctx EXCEPT !.notifications = updated], dbErr)
  IN IF method # "POST" THEN [status |-> StatusMethodNotAllowed, wrote |-> FALSE, tbl |-> tbl]
     ELSE IF ctx = NilUser THEN [status |-> StatusUnauthorized, wrote |-> FALSE, tbl |-> tbl]
     ELSE IF badForm \/ id = 0 THEN [status |-> StatusBadRequest, wrote |-> FALSE, tbl |-> tbl]
     ELSE IF w.err THEN [status |-> StatusInternalServerError, wrote |-> TRUE, tbl |-> w.tbl]
     ELSE [status |-> StatusOK, wrote |-> TRUE, tbl |-> w.tbl]

\* handlers.go 159-204.  ctx is the user in the request's context, NilUser if
\* the context holds a nil user or none (both fail the test of line 166); id is
\* the form value "id", 0 for the empty string.  The result is the status
\* written, whether SaveUser was called, and the users table afterwards.
DeleteNotificationHandler(tbl, method, ctx, badForm, id, dbErr) ==
  LET found == \E k \in 1..Len(ctx.notifications) : ctx.notifications[k].id = id
      updated == SelectSeq(ctx.notifications, LAMBDA n : n.id # id)
      w == SaveUser(tbl, [ctx EXCEPT !.notifications = updated], dbErr)
  IN IF method # "POST" THEN [status |-> StatusMethodNotAllowed, wrote |-> FALSE, tbl |-> tbl]
     ELSE IF ctx = NilUser THEN [status |-> StatusUnauthorized, wrote |-> FALSE, tbl |-> tbl]
     ELSE IF badForm \/ id = 0 THEN [status |-> StatusBadRequest, wrote |-> FALSE, tbl |-> tbl]
     ELSE IF ~found THEN [status |-> StatusNotFound, wrote |-> FALSE, tbl |-> tbl]
     ELSE IF w.err THEN [status |-> StatusInternalServerError, wrote |-> TRUE, tbl |-> w.tbl]
     ELSE [status |-> StatusOK, wrote |-> TRUE, tbl |-> w.tbl]

\* A request for the deletion that has not been made.  The deletion requests
\* of a run are made one after the other: the next arrives when the one
\* before has been answered.
NoDeleter ==
  [pc |-> "new", via |-> "", session |-> "", header |-> <<>>, ctx |-> NilUser,
   method |-> "", badForm |-> FALSE, id |-> 0, wrote |-> FALSE, status |-> 0]

\* handlers.go 100, main.go 42: "/api/notifications/delete" is registered with
\* mux.HandleFunc, behind LoadAndSave only.  ValidateSessionToken does not run
\* for it, so whatever session and Authorization header the request has, its
\* context carries no user when the handler starts.
DeleteRoute(i, s, hdr) ==
  /\ disp.state = "running"
  /\ deleters[i].pc = "new"
  /\ \A j \in 1..(i - 1) : deleters[j].pc = "gone"
  /\ deleters' = [deleters EXCEPT ![i] =
       [NoDeleter EXCEPT !.pc = "routed", !.via = "route", !.session = s, !.header = hdr]]
  /\ UNCHANGED <<users, authVars, posts, queue, minted, disp, saves, readers, creators, hist>>

\* handlers.go 165, 300-301: the handler is entered with a request whose
\* context carries the user record u as it was fetched for the request, the
\* way ValidateSessionToken hands a user to a handler it wraps.
DeleteWithUser(i, u) ==
  /\ disp.state = "running"
  /\ deleters[i].pc = "new"
  /\ \A j \in 1..(i - 1) : deleters[j].pc = "gone"
  /\ u \in DOMAIN users
  /\ deleters' = [deleters EXCEPT ![i] =
       [NoDeleter EXCEPT !.pc = "routed", !.via = "context", !.ctx = users[u]]]
  /\ UNCHANGED <<users, authVars, posts, queue, minted, disp, saves, readers, creators, hist>>

\* handlers.go 159-204: the handler runs on request i.
DeleteNotification(i, method, badForm, id, dbErr) ==
  LET r == DeleteNotificationHandler(users, method, deleters[i].ctx, badForm, id, dbErr)
  IN /\ disp.state = "running"
     /\ deleters[i].pc = "routed"
     /\ MayFail(dbErr)
     /\ users' = r.tbl
     /\ deleters' = [deleters EXCEPT ![i] =
          [@ EXCEPT !.pc = "done", !.method = method, !.badForm = badForm, !.id = id,
                    !.wrote = r.wrote, !.status = r.status]]
     /\ hist' = IF r.status = StatusInternalServerError /\ r.wrote
                  THEN [hist EXCEPT !.faults = @ + 1]
                ELSE IF r.status = StatusOK
                  THEN [hist EXCEPT !.deleted = @ \cup {id},
                                    !.everRead = @ \cup PersistedRead(r.tbl)]
                ELSE hist
     /\ UNCHANGED <<authVars, posts, queue, minted, disp, saves, readers, creators>>


\* The response of request i has gone out and the request is over.
DeleteComplete(i) ==
  /\ deleters[i].pc = "done"
  /\ deleters' = [deleters EXCEPT ![i] = [NoDeleter EXCEPT !.pc = "gone"]]
  /\ UNCHANGED <<users, authVars, posts, queue, minted, disp, saves, readers, creators, hist>>

\* ------------------------------------------------------ creating an account
\* user.go 53-70, 86-94: uuid.New and generateAPIKey give request i an id and a
\* key that no other record has.
NewID(i) == "n" \o ToString(i)
NewKey(i) == [j \in 1..(2 + i) |-> "a"]
NewUser(i, email) ==
  [id |-> NewID(i), email |-> email, key |-> NewKey(i), handle |-> "",
   password |-> "", notifications |-> <<>>]

\* An addUserHandler request that has not been made.
NoCreator == [pc |-> "new", email |-> <<>>, user |-> NilUser, status |-> 0]

\* handlers.go 207-248: the request is refused, or the user is built.  The
\* error of GetUserByEmail is dropped (line 230): a lookup that fails counts as
\* "no such user".  genErr: NewUser or SetPassword fails (the key generator;
\* bcrypt on a password it does not take).
AddUserLookup(i, method, badBody, email, password, handle, lookupErr, genErr) ==
  LET existingUser == GetUserByEmail(users, email, lookupErr)
      looked == method = "POST" /\ ~badBody /\ email # <<>> /\ password # "" /\ handle # ""
      built == looked /\ existingUser.isNil
      user == [NewUser(i, email) EXCEPT !.handle = handle, !.password = password]
      status == IF method # "POST" THEN StatusMethodNotAllowed
                ELSE IF ~looked THEN StatusBadRequest
                ELSE IF ~existingUser.isNil THEN StatusConflict
                ELSE StatusInternalServerError
  IN /\ disp.state = "running"
     /\ creators[i].pc = "new"
     /\ lookupErr => looked /\ hist.faults < MaxFaults
     /\ genErr => built
     /\ creators' = [creators EXCEPT ![i] =
          IF built /\ ~genErr
            THEN [pc |-> "built", email |-> email, user |-> user, status |-> 0]
            ELSE [pc |-> "done", email |-> email, user |-> NilUser, status |-> status]]
     /\ hist' = IF lookupErr THEN [hist EXCEPT !.faults = @ + 1] ELSE hist
     /\ UNCHANGED <<users, authVars, posts, queue, minted, disp, saves, readers, deleters>>

\* handlers.go 250-261: the user is written and the request answered.
AddUserSave(i, dbErr) ==
  LET w == SaveUser(users, creators[i].user, dbErr)
  IN /\ disp.state = "running"
     /\ creators[i].pc = "built"
     /\ MayFail(dbErr)
     /\ users' = w.tbl
     /\ creators' = [creators EXCEPT ![i] =
          [@ EXCEPT !.pc = "done", !.user = NilUser,
                    !.status = IF w.err THEN StatusInternalServerError ELSE StatusCreated]]
     /\ hist' = IF w.err THEN [hist EXCEPT !.faults = @ + 1] ELSE hist
     /\ UNCHANGED <<authVars, posts, queue, minted, disp, saves, readers, deleters>>

\* ------------------------------------------------------------ specifications
PipelineIdle ==
  /\ posts = <<"u1", "u2">>
  /\ queue = <<>>
  /\ minted = 0
  /\ disp = [state |-> "running", tick |-> 0]
  /\ saves = {}
  /\ readers = [i \in 1..MaxReaders |-> [pc |-> "new", user |-> NilUser, seen |-> <<>>]]
  /\ deleters = [i \in 1..MaxDeleters |-> NoDeleter]
  /\ creators = [i \in 1..MaxCreators |-> NoCreator]
  /\ hist = [enq |-> <<>>, appended |-> {}, everRead |-> {}, faults |-> 0,
             overlap |-> FALSE, budget |-> MaxNotifs, lost |-> {}, deleted |-> {}]

\* The resolver: nobody is logged in, the pipeline is at rest.
InitAuth ==
  /\ users = InitialUsers
  /\ tokens = <<>>
  /\ session = <<>>
  /\ now = 1
  /\ issued = 0
  /\ resp = NoResponse
  /\ PipelineIdle

NextAuth ==
  \/ \E s \in Sessions, hdr \in Headers, f \in Faults :
       Request(s, hdr, f = "token", f = "user")
  \/ \E s \in Sessions, e \in Emails, p \in Passwords, f \in Faults :
       ProcessLogin(s, e, p, f = "user", f = "token")
  \/ \E s \in Sessions : HandleLogout(s)
  \/ Complete
  \/ AdvanceClock
  \/ \E v \in 1..MaxTokens : PurgeTokenRow(v)
  \/ \E u \in UserIDs : DropUserRow(u)

SpecAuth == InitAuth /\ [][NextAuth]_vars

\* The pipeline: user u1 has logged in on session s1 (the state ProcessLogin
\* leaves), and posts 1 and 2 exist, written by u1 and u2.
Init ==
  /\ users = InitialUsers
  /\ tokens = SaveToken(<<>>, [value |-> 1, userID |-> "u1", email |-> <<"a">>,
                               expiresAt |-> 1 + TokenTTL])
  /\ session = SessionPut(<<>>, "s1", 1)
  /\ now = 1
  /\ issued = 1
  /\ resp = NoResponse
  /\ PipelineIdle

Next ==
  \/ \E s \in Sessions, parent \in 1..(Len(posts) + 1), f \in PostFaults :
       CreatePost(s, parent, f)
  \/ \E err \in BOOLEAN : Deliver(err)
  \/ \E user \in saves, dbErr \in BOOLEAN : AsyncSaveUser(user, dbErr)
  \/ MaintenanceTick
  \/ \E i \in 1..MaxReaders, s \in Sessions, f \in Faults : ListFetch(i, s, f)
  \/ \E i \in 1..MaxReaders, dbErr \in BOOLEAN : ListSave(i, dbErr)
  \/ \E u \in UserIDs : DropUserRow(u)

Spec == Init /\ [][Next]_vars

\* The channel under load: u1, logged in, replies to post 1 up to
\* NotifChCap + MaxBurst times while the dispatcher takes what it takes.  The
\* writes the deliveries start do not touch the channel and stay pending.
InitQueue ==
  /\ users = InitialUsers
  /\ tokens = SaveToken(<<>>, [value |-> 1, userID |-> "u1", email |-> <<"a">>,
                               expiresAt |-> 1 + TokenTTL])
  /\ session = SessionPut(<<>>, "s1", 1)
  /\ now = 1
  /\ issued = 1
  /\ resp = NoResponse
  /\ posts = <<"u1", "u2">>
  /\ queue = <<>>
  /\ minted = 0
  /\ disp = [state |-> "running", tick |-> 0]
  /\ saves = {}
  /\ readers = [i \in 1..MaxReaders |-> [pc |-> "new", user |-> NilUser, seen |-> <<>>]]
  /\ deleters = [i \in 1..MaxDeleters |-> NoDeleter]
  /\ creators = [i \in 1..MaxCreators |-> NoCreator]
  /\ hist = [enq |-> <<>>, appended |-> {}, everRead |-> {}, faults |-> 0,
             overlap |-> FALSE, budget |-> NotifChCap + MaxBurst, lost |-> {}, deleted |-> {}]

NextQueue ==
  \/ \E s \in Sessions : CreatePost(s, 1, "none")
  \/ Deliver(FALSE)
  \/ MaintenanceTick

SpecQueue == InitQueue /\ [][NextQueue]_vars

\* The channel under load with a scheduled dispatcher: u1, logged in, replies
\* to u2's post 2 up to NotifChCap + MaxBurst times; a request that can send
\* does, the dispatcher's select proceeds when the channel holds a
\* notification, and a user's row may be lost meanwhile.
NextBacklog ==
  \/ \E s \in Sessions : CreatePost(s, 2, "none")
  \/ Deliver(FALSE)
  \/ MaintenanceTick
  \/ \E u \in UserIDs : DropUserRow(u)

FairQueue ==
  /\ InitQueue /\ [][NextBacklog]_vars
  /\ WF_vars(Deliver(FALSE))
  /\ WF_vars(\E s \in Sessions : CreatePost(s, 2, "none"))

\* The pipeline with a dispatcher that is scheduled: the ticker keeps firing
\* (time.NewTicker) and a select with a ready case does not wait for ever.
FairSpec == Spec /\ WF_vars(MaintenanceTick) /\ WF_vars(\E err \in BOOLEAN : Deliver(err))

\* The pipeline with the goroutines it starts scheduled as well: a
\* "go h.db.SaveUser(user)" that is ready runs.
FairDelivery ==
  FairSpec /\ WF_vars(\E user \in saves, dbErr \in BOOLEAN : AsyncSaveUser(user, dbErr))

\* The dispatcher and the notification list on what they may be given.
\* NotifCh is an exported field and takes any Notification value, so the
\* channel starts with up to MaxNotifs notifications for u1, for u2 or for
\* nobody; u1's stored list starts with notifications received earlier, read
\* at time 1 or unread.  u1 logged in at time 2 and nothing more is sent.
StoredReadAt == {0, 1}
Recipients == {""} \cup UserIDs
InitDispatch ==
  \E k \in 0..MaxNotifs : \E m \in 0..(MaxNotifs - k) :
    \E reads \in [1..k -> StoredReadAt], tos \in [1..m -> Recipients] :
      LET stored == [i \in 1..k |-> [id |-> i, userID |-> "u1", readAt |-> reads[i]]]
          sent == [i \in 1..k |-> [id |-> i, userID |-> "u1", readAt |-> 0]]
          queued == [i \in 1..m |-> [id |-> k + i, userID |-> tos[i], readAt |-> 0]]
      IN /\ users = [InitialUsers EXCEPT !["u1"].notifications = stored]
         /\ tokens = SaveToken(<<>>, [value |-> 1, userID |-> "u1", email |-> <<"a">>,
                                      expiresAt |-> 2 + TokenTTL])
         /\ session = SessionPut(<<>>, "s1", 1)
         /\ now = 2
         /\ issued = 1
         /\ resp = NoResponse
         /\ posts = <<"u1", "u2">>
         /\ queue = queued
         /\ minted = k + m
         /\ disp = [state |-> "running", tick |-> 0]
         /\ saves = {}
         /\ readers = [i \in 1..MaxReaders |->
                         [pc |-> "new", user |-> NilUser, seen |-> <<>>]]
         /\ deleters = [i \in 1..MaxDeleters |-> NoDeleter]
         /\ creators = [i \in 1..MaxCreators |-> NoCreator]
         /\ hist = [enq |-> sent \o queued, appended |-> 1..k,
                    everRead |-> ReadIDs(stored), faults |-> 0, overlap |-> FALSE,
                    budget |-> k + m, lost |-> {}, deleted |-> {}]

NextDispatch ==
  \/ \E err \in BOOLEAN : Deliver(err)
  \/ \E user \in saves, dbErr \in BOOLEAN : AsyncSaveUser(user, dbErr)
  \/ MaintenanceTick
  \/ \E i \in 1..MaxReaders, s \in Sessions, f \in Faults : ListFetch(i, s, f)
  \/ \E i \in 1..MaxReaders, dbErr \in BOOLEAN : ListSave(i, dbErr)
  \/ \E u \in UserIDs : DropUserRow(u)
  \/ Shutdown

SpecDispatch == InitDispatch /\ [][NextDispatch]_vars

\* The notification list under its three writers: the dispatcher, the
\* requests for the list and the requests for a deletion, started as in
\* InitDispatch.  A deletion comes in over the registered route, from the
\* browser that is logged in as u1 or from one that never logged in (s2), with
\* no Authorization header or with u1's e-mail and key; or the handler is
\* entered with a user in the request's context.
Visitors == Sessions \cup {"s2"}
Credentials == {<<>>, <<"a", ":", "a", "a">>}
Methods == {"POST", "GET"}
FormIDs == 0..(MaxNotifs + 1)
NextNotif ==
  \/ \E err \in BOOLEAN : Deliver(err)
  \/ \E user \in saves, dbErr \in BOOLEAN : AsyncSaveUser(user, dbErr)
  \/ MaintenanceTick
  \/ \E i \in 1..MaxReaders, s \in Sessions, f \in Faults : ListFetch(i, s, f)
  \/ \E i \in 1..MaxReaders, dbErr \in BOOLEAN : ListSave(i, dbErr)
  \/ \E i \in 1..MaxDeleters, s \in Visitors, hdr \in Credentials : DeleteRoute(i, s, hdr)
  \/ \E i \in 1..MaxDeleters, u \in UserIDs : DeleteWithUser(i, u)
  \/ \E i \in 1..MaxDeleters, method \in Methods, badForm, dbErr \in BOOLEAN, id \in FormIDs :
       DeleteNotification(i, method, badForm, id, dbErr)
  \/ \E i \in 1..MaxDeleters : DeleteComplete(i)

SpecNotif == InitDispatch /\ [][NextNotif]_vars

\* The deletion handler next to the dispatcher alone; the requests over the
\* route come from the browser that is logged in.
NextDelete ==
  \/ \E err \in BOOLEAN : Deliver(err)
  \/ \E user \in saves, dbErr \in BOOLEAN : AsyncSaveUser(user, dbErr)
  \/ \E i \in 1..MaxDeleters, s \in Sessions : DeleteRoute(i, s, <<>>)
  \/ \E i \in 1..MaxDeleters, u \in UserIDs : DeleteWithUser(i, u)
  \/ \E i \in 1..MaxDeleters, method \in Methods, badForm, dbErr \in BOOLEAN, id \in FormIDs :
       DeleteNotification(i, method, badForm, id, dbErr)
  \/ \E i \in 1..MaxDeleters : DeleteComplete(i)

SpecDelete == InitDispatch /\ [][NextDelete]_vars

\* The notification list under its three writers with the requests that reach
\* a write: the dispatcher and its goroutines, the list page of the browser
\* that is logged in, and POSTs to the deletion handler entered with a user in
\* the context.  Of the storage calls, the dispatcher's write may fail.
NextLists ==
  \/ Deliver(FALSE)
  \/ \E user \in saves, dbErr \in BOOLEAN : AsyncSaveUser(user, dbErr)
  \/ \E i \in 1..MaxReaders, s \in Sessions : ListFetch(i, s, "none")
  \/ \E i \in 1..MaxReaders : ListSave(i, FALSE)
  \/ \E i \in 1..MaxDeleters, u \in UserIDs : DeleteWithUser(i, u)
  \/ \E i \in 1..MaxDeleters, id \in FormIDs :
       DeleteNotification(i, "POST", FALSE, id, FALSE)
  \/ \E i \in 1..MaxDeleters : DeleteComplete(i)

SpecLists == InitDispatch /\ [][NextLists]_vars

\* Two browsers are logged in, s1 as u1 and s2 as u2 (the state two runs of
\* processLogin leave); they make requests and log out.
InitLogout ==
  /\ users = InitialUsers
  /\ tokens = SaveToken(SaveToken(<<>>, [value |-> 1, userID |-> "u1", email |-> <<"a">>,
                                         expiresAt |-> 1 + TokenTTL]),
                        [value |-> 2, userID |-> "u2", email |-> <<"a", "a">>,
                         expiresAt |-> 1 + TokenTTL])
  /\ session = SessionPut(SessionPut(<<>>, "s1", 1), "s2", 2)
  /\ now = 1
  /\ issued = 2
  /\ resp = NoResponse
  /\ PipelineIdle

NextLogout ==
  \/ \E s \in Visitors, hdr \in Credentials, f \in Faults :
       Request(s, hdr, f = "token", f = "user")
  \/ \E s \in Visitors : HandleLogout(s)
  \/ Complete
  \/ AdvanceClock

SpecLogout == InitLogout /\ [][NextLogout]_vars

\* Account creation: the two stored users, nobody logged in, and up to
\* MaxCreators requests to /api/user/create in flight together, with no
\* e-mail, u1's e-mail or one that has no account.
CreateEmails == {<<>>, <<"a">>, <<"a", "a", "a">>}
CreatePasswords == {""} \cup Passwords
CreateHandles == {"", "h"}
NextAccounts ==
  \/ \E i \in 1..MaxCreators, method \in Methods, badBody, lookupErr, genErr \in BOOLEAN,
        email \in CreateEmails, password \in CreatePasswords, handle \in CreateHandles :
       AddUserLookup(i, method, badBody, email, password, handle, lookupErr, genErr)
  \/ \E i \in 1..MaxCreators, dbErr \in BOOLEAN : AddUserSave(i, dbErr)

SpecAccounts == InitAuth /\ [][NextAccounts]_vars

\* ================================================================ properties
\* The three outcomes of the resolver, read off a response.
Authenticated(r) == r.nextCalls = 1 /\ r.status = 0 /\ ~r.panicked /\ r.ctxUser # NilUser
Anonymous(r) == r.nextCalls = 1 /\ r.status = 0 /\ ~r.panicked /\ r.ctxUser = NilUser
Rejected(r) ==
  /\ r.nextCalls = 0 /\ ~r.panicked
  /\ r.status \in {StatusUnauthorized, StatusInternalServerError}

\* The header as the interface describes it: "<email>:<apiKey>".
ColonCount(h) == Cardinality({i \in 1..Len(h) : h[i] = ":"})
ColonAt(h) == CHOOSE i \in 1..Len(h) : h[i] = ":"
EmailOf(h) == SubSeq(h, 1, ColonAt(h) - 1)
KeyOf(h) == SubSeq(h, ColonAt(h) + 1, Len(h))
MatchingUser(h) ==
  \E u \in DOMAIN users : users[u].email = EmailOf(h) /\ users[u].key = KeyOf(h)
Malformed(h) == ColonCount(h) # 1 \/ EmailOf(h) = <<>> \/ KeyOf(h) = <<>>

\* The pipeline is at rest: nothing queued, no write outstanding.
Quiescent ==
  /\ disp.state = "running"
  /\ queue = <<>>
  /\ saves = {}
  /\ \A i \in 1..MaxReaders : readers[i].pc # "saving"
IDs(list) == [i \in 1..Len(list) |-> list[i].id]
SentTo(u) == SelectSeq(hist.enq, LAMBDA n : n.userID = u)
AppendedTo(u) == {i \in hist.appended : hist.enq[i].userID = u}

\* C1: mark-all-read requests and dispatcher appends for one user, in any
\* interleaving: once all have completed the user's persisted list has
\* (initial count + number of appends) entries, the initial count being 0 here,
\* and every notification ever persisted as read is still read.  Stated for the
\* runs without a storage failure in which the dispatcher's own writes did not
\* overlap one another, so that only the request and the dispatcher race.
C1_NoLostUpdate ==
  (Quiescent /\ hist.faults = 0 /\ ~hist.overlap) =>
    /\ \A u \in DOMAIN users : Len(users[u].notifications) = Cardinality(AppendedTo(u))
    /\ hist.everRead \subseteq PersistedRead(users)

\* C2: notifications sent for one user, no other path writing that user: once
\* the dispatcher has processed them and every write it started has finished,
\* the user's persisted list holds them all, in the order sent.
C2_PersistedInOrderSent ==
  (Quiescent /\ hist.faults = 0 /\ \A i \in 1..MaxReaders : readers[i].pc = "new") =>
    \A u \in DOMAIN users : IDs(users[u].notifications) = IDs(SentTo(u))

\* C3: a step in which the dispatcher receives a notification whose recipient
\* cannot be fetched (the query fails, or there is no row for the id) writes
\* no user, starts no write and leaves the dispatcher running.
C3_UnfetchableIsDropped ==
  [][(/\ disp.state = "running"
      /\ queue # <<>>
      /\ queue' = Tail(queue)
      /\ Head(queue).userID # ""
      /\ Head(queue).userID \notin DOMAIN users \/ hist'.faults > hist.faults)
     => (users' = users /\ saves' = saves /\ disp'.state = "running")]_vars

\* C4: no token in the session store and no Authorization header: next runs
\* once, with a nil user, and no error status is written.
C4_NoCredentialIsAnonymous ==
  (resp.op = "validate" /\ ~resp.hadToken /\ resp.header = <<>>) => Anonymous(resp)
C4_Witness ==
  resp.op = "validate" /\ ~resp.hadToken /\ resp.header = <<>> /\ resp.nextCalls = 1

\* The expiry of a stored token as section 4.1 of the specification defines
\* it: expiresAt <= now.
Expired(tk, t) == tk.expiresAt <= t

\* C5: the session's token value has a stored token that has expired: next
\* runs once with a nil user, no error status, and the session entry is gone
\* when next runs and afterwards.
C5_ExpiredIsClearedAndAnonymous ==
  (resp.op = "validate" /\ resp.hadToken /\ resp.tkFound /\ Expired(resp.tk, resp.at)) =>
    (Anonymous(resp) /\ ~resp.sessionAtNext /\ ~resp.sessionAfter)

\* C6: the session's token value has no stored token (the lookup finds no row):
\* the session entry is removed and next runs with a nil user; the request
\* does not fail or abort.
C6_UnknownTokenIsClearedAndAnonymous ==
  (resp.op = "validate" /\ resp.hadToken /\ ~resp.tkFound /\ ~resp.tokErr) =>
    (Anonymous(resp) /\ ~resp.sessionAfter)

\* C7: no session value and a header with exactly two colon-separated fields:
\* if the lookup fails, or no user has that e-mail with that key, the response
\* is Unauthorized and next is not invoked.
C7_WrongKeyIsRejected ==
  (/\ resp.op = "validate" /\ ~resp.hadToken /\ ColonCount(resp.header) = 1
   /\ resp.usrErr \/ ~MatchingUser(resp.header)) =>
    (resp.status = StatusUnauthorized /\ resp.nextCalls = 0)
C7_Witness ==
  /\ resp.op = "validate" /\ ~resp.hadToken /\ ColonCount(resp.header) = 1 /\ ~resp.usrErr
  /\ KeyOf(resp.header) # <<>>
  /\ \E u \in DOMAIN users :
       users[u].email = EmailOf(resp.header) /\ users[u].key # KeyOf(resp.header)
  /\ resp.status = StatusUnauthorized

\* C8: next invoked with a non-nil user U: U is a stored user, and either the
\* session held a token value whose stored token is unexpired and carries U's
\* e-mail, or there was no session value and the header was U.email ":" U.key.
C8_AttachedUserPassedACheck ==
  (resp.op = "validate" /\ resp.nextCalls = 1 /\ resp.ctxUser # NilUser) =>
    /\ \E u \in DOMAIN users : users[u] = resp.ctxUser
    /\ \/ /\ resp.hadToken /\ resp.tkFound
          /\ ~Expired(resp.tk, resp.at)
          /\ resp.tk.email = resp.ctxUser.email
       \/ /\ ~resp.hadToken
          /\ resp.header = resp.ctxUser.email \o <<":">> \o resp.ctxUser.key

\* C9: every request through the resolver ends in exactly one of
\* Authenticated, Anonymous, Rejected; next is invoked at most once, and not
\* at all when an error status is written.
C9_ExactlyOneOutcome ==
  resp.op = "validate" =>
    /\ Cardinality({o \in {"authenticated", "anonymous", "rejected"} :
         \/ o = "authenticated" /\ Authenticated(resp)
         \/ o = "anonymous" /\ Anonymous(resp)
         \/ o = "rejected" /\ Rejected(resp)}) = 1
    /\ resp.nextCalls <= 1
    /\ resp.status # 0 => resp.nextCalls = 0

\* C10: no session value and a header that is present but malformed (no colon,
\* several colons, an empty e-mail or key): the request is rejected.
C10_MalformedIsRejected ==
  (resp.op = "validate" /\ ~resp.hadToken /\ resp.header # <<>> /\ Malformed(resp.header)) =>
    Rejected(resp)

C12_UserLoadFailureIsInternalError ==
  (/\ resp.op = "validate" /\ resp.hadToken /\ resp.tkFound /\ ~resp.tokErr
   /\ ~Expired(resp.tk, resp.at) /\ resp.usrErr) =>
    (resp.status = StatusInternalServerError /\ resp.nextCalls = 0 /\ ~resp.panicked)
C12_Witness ==
  /\ resp.op = "validate" /\ resp.hadToken /\ resp.tkFound /\ ~resp.tokErr
  /\ ~Expired(resp.tk, resp.at) /\ resp.usrErr
  /\ resp.status = StatusInternalServerError

\* The notifications in the channel are the last Len(queue) of those sent.
QueueIsTailOfSent(q, sent) ==
  /\ Len(q) <= Len(sent)
  /\ q = SubSeq(sent, Len(sent) - Len(q) + 1, Len(sent))

\* C13: the channel never holds more than its capacity of notifications.
C13_QueueWithinCapacity == Len(queue) <= NotifChCap
C13_Witness == Len(queue) = NotifChCap /\ minted = NotifChCap

\* C14: while the channel is full no createPost completes its send or goes
\* on to insert its post; no step takes the channel beyond its capacity, and
\* no notification sent is lost from it other than by the dispatcher taking
\* the oldest.
C14_SendBlocksWhileFull ==
  [][/\ Len(queue) = NotifChCap =>
          (hist'.enq = hist.enq /\ minted' = minted /\ posts' = posts)
     /\ Len(queue') <= NotifChCap
     /\ QueueIsTailOfSent(queue', hist'.enq)]_vars
C14_Witness ==
  /\ minted > NotifChCap
  /\ Len(queue) = NotifChCap
  /\ queue[Len(queue)].id = minted

\* The ids of the notifications in the users table.
PersistedIDs(tbl) ==
  UNION {{tbl[u].notifications[i].id : i \in 1..Len(tbl[u].notifications)} : u \in DOMAIN tbl}
LastOf(u) == u.notifications[Len(u.notifications)]

\* C15: every step in which the dispatcher takes a notification takes the
\* oldest one sent and not yet taken, whoever sent it, and the write it starts
\* is for that notification; the channel always holds the latest sent, in the
\* order sent.
C15_DequeuesInOrderSent ==
  [][/\ QueueIsTailOfSent(queue', hist'.enq)
     /\ Len(queue') < Len(queue) =>
          /\ queue' = Tail(queue)
          /\ Head(queue) = hist.enq[Len(hist.enq) - Len(queue) + 1]
          /\ \A u \in saves' \ saves : LastOf(u) = Head(queue)]_vars
C15_Witness ==
  /\ Len(hist.enq) = 2
  /\ queue = <<hist.enq[2]>>
  /\ \E u \in saves : LastOf(u) = hist.enq[1]

\* C17: a step in which a write started by the dispatcher fails leaves the
\* users table, the channel and the dispatcher as they are and starts no
\* other write (no retry); and a notification whose write failed is in no
\* stored list and in no pending write afterwards.
C17_FailedSaveIsDropped ==
  [][/\ hist'.lost # hist.lost =>
          /\ users' = users /\ queue' = queue /\ disp' = disp
          /\ \E u \in saves : saves' = saves \ {u} /\ hist'.lost = hist.lost \cup {LastOf(u).id}
     /\ hist'.lost \cap PersistedIDs(users') = {}
     /\ \A u \in saves' : LastOf(u).id \notin hist'.lost]_vars
C17_Witness ==
  /\ disp.state = "running"
  /\ \E i \in hist.lost, j \in hist.appended : i < j

\* C16: a step in which the dispatcher takes a notification with an empty
\* userID changes nothing else: no user record, no write started, no lookup
\* made (so none that fails), and the dispatcher runs on.
C16_EmptyRecipientIsDiscarded ==
  [][(/\ queue # <<>> /\ Head(queue).userID = ""
      /\ Len(queue') < Len(queue))
     => /\ queue' = Tail(queue)
        /\ users' = users /\ saves' = saves /\ hist' = hist
        /\ disp'.state = "running"]_vars
C16_Witness ==
  /\ disp.state = "running"
  /\ \E i \in 1..Len(hist.enq) : \E j \in (i + 1)..Len(hist.enq) :
       /\ hist.enq[i].userID = ""
       /\ hist.enq[j].id \in hist.appended

\* C18: the dispatcher's loop is ended only by its stop signal, and when it
\* has ended no notification it had taken from the channel is left without
\* its write done.
C18_StopLeavesNothingUnpersisted ==
  disp.state = "stopped" => saves = {}

\* A list has no unread notification.
AllRead(list) == \A k \in 1..Len(list) : list[k].readAt # 0

\* C20: a request for the notification list, for each request i:
\*  - the step that fetches writes nothing, and goes on to a write only if
\*    the list it fetched has an unread notification;
\*  - the write, when it succeeds and the stored record is still the one the
\*    request fetched (no concurrent writer), changes only that user's list:
\*    same length, same notifications in the same order, readAt = now where it
\*    was zero and unchanged where it was not; no unread notification is left;
\*  - after its write the request writes no more.
C20_MarkAllReadPersistsOnce ==
  [][\A i \in 1..MaxReaders :
       /\ (readers[i].pc = "new" /\ readers'[i].pc # "new") =>
             /\ users' = users
             /\ readers'[i].pc = "saving" => ~AllRead(readers'[i].seen)
       /\ (/\ readers[i].pc = "saving" /\ readers'[i].pc = "done"
           /\ hist'.faults = hist.faults
           /\ readers[i].user.id \in DOMAIN users
           /\ users[readers[i].user.id].notifications = readers[i].seen) =>
             LET u == readers[i].user.id
                 old == users[u].notifications
                 new == users'[u].notifications
             IN /\ DOMAIN users' = DOMAIN users
                /\ \A x \in DOMAIN users \ {u} : users'[x] = users[x]
                /\ users'[u] = [users[u] EXCEPT !.notifications = new]
                /\ Len(new) = Len(old)
                /\ \A k \in 1..Len(old) :
                     /\ new[k] = [old[k] EXCEPT !.readAt = new[k].readAt]
                     /\ new[k].readAt = IF old[k].readAt = 0 THEN now ELSE old[k].readAt
                /\ AllRead(new)
       /\ readers[i].pc = "done" => readers'[i] = readers[i]]_vars
C20_Witness ==
  /\ hist.faults = 0 /\ queue = <<>> /\ saves = {} /\ hist.appended = 1..minted
  /\ \A i \in 1..MaxReaders : readers[i].pc = "done"
  /\ "u1" \in DOMAIN users
  /\ Len(users["u1"].notifications) = 2
  /\ users["u1"].notifications[1].readAt = 1
  /\ users["u1"].notifications[2].readAt = now

\* C19: in every run in which no notification is ever sent the maintenance
\* branch is taken again and again; and no step of the dispatcher is both a
\* maintenance tick and a delivery, or takes more than one notification.
C19_TickIndependentOfQueue ==
  /\ [](hist.enq = <<>>) => []<><<MaintenanceTick>>_vars
  /\ [][/\ ~(disp'.tick # disp.tick /\ queue' # queue)
        /\ Len(queue') >= Len(queue) - 1]_vars
C19_Witness ==
  disp.state = "running" /\ disp.tick = 1 /\ hist.enq = <<>>

\* The ids of a list are those of the notifications of old, less the k-th.
OccursIn(id, list) == \E k \in 1..Len(list) : list[k].id = id
IsWithoutOne(new, old, id) ==
  \E k \in 1..Len(old) :
    /\ old[k].id = id
    /\ new = SubSeq(old, 1, k - 1) \o SubSeq(old, k + 1, Len(old))
\* Request i is handled in this step.
Handled(i) == deleters[i].pc = "routed" /\ deleters'[i].pc = "done"

C23_DeleteRefusalsWriteNothing ==
  [][\A i \in 1..MaxDeleters :
       (Handled(i) /\ deleters'[i].method = "POST") =>
          LET d == deleters'[i]
              refused(code) == d.status = code /\ ~d.wrote /\ users' = users /\ hist' = hist
          IN /\ (/\ d.ctx # NilUser /\ ~d.badForm /\ d.id # 0
                 /\ ~OccursIn(d.id, d.ctx.notifications))
                  => refused(StatusNotFound) /\ StatusNotFound # StatusOK
             /\ d.ctx = NilUser => refused(StatusUnauthorized)
             /\ (d.ctx # NilUser /\ ~d.badForm /\ d.id = 0) => refused(StatusBadRequest)]_vars
C23_Witness ==
  \E i \in 1..MaxDeleters :
    /\ deleters[i].pc = "done" /\ deleters[i].status = StatusNotFound
    /\ deleters[i].method = "POST" /\ deleters[i].id # 0
    /\ deleters[i].ctx.notifications # <<>>

\* The readAt of notification id in the users table, 0 if it is unread or in
\* no list.
PersistedReadAt(tbl, id) ==
  IF \E u \in DOMAIN tbl : \E k \in 1..Len(tbl[u].notifications) :
       tbl[u].notifications[k].id = id /\ tbl[u].notifications[k].readAt # 0
    THEN LET u == CHOOSE x \in DOMAIN tbl : \E k \in 1..Len(tbl[x].notifications) :
                    tbl[x].notifications[k].id = id /\ tbl[x].notifications[k].readAt # 0
             k == CHOOSE j \in 1..Len(tbl[u].notifications) :
                    tbl[u].notifications[j].id = id /\ tbl[u].notifications[j].readAt # 0
         IN tbl[u].notifications[k].readAt
    ELSE 0

\* C21: in every step, under the dispatcher's appends, the requests for the
\* list and the deletions together: a notification ever stored as read is, if
\* stored at all, stored as read; a stored readAt that is not zero does not
\* change; and a stored readAt leaves zero only in the write of a request for
\* the list.
C21_ReadAtChangesAtMostOnce ==
  [][/\ \A id \in hist.everRead \cap PersistedIDs(users') : id \in PersistedRead(users')
     /\ \A id \in PersistedRead(users) \cap PersistedRead(users') :
          PersistedReadAt(users', id) = PersistedReadAt(users, id)
     /\ \A id \in PersistedRead(users') \ PersistedRead(users) :
          \/ id \in hist.everRead
          \/ \E i \in 1..MaxReaders : readers[i].pc = "saving" /\ readers'[i].pc = "done"]_vars

\* C24: a step that is a logout of session s leaves the tokens table and the
\* users table as they are, removes the entry of s from the session store and
\* changes no other session's entry; a request on s with no Authorization
\* header, made in the state the logout leaves, resolves Anonymous whatever
\* the storage does; and so does every request with no header on a session
\* that holds no entry.
C24_LogoutClearsOnlySessionEntry ==
  [][/\ (resp.op = "none" /\ resp'.op = "logout") =>
          LET s == resp'.session
          IN /\ tokens' = tokens /\ users' = users
             /\ s \notin DOMAIN session'
             /\ DOMAIN session' = DOMAIN session \ {s}
             /\ \A x \in DOMAIN session' : session'[x] = session[x]
             /\ \A f \in Faults :
                  LET r == ValidateSessionToken(users', tokens', session', now', s, <<>>,
                                                f = "token", f = "user")
                  IN Anonymous(r) /\ r.sess = session'
     /\ (/\ resp.op = "none" /\ resp'.op = "validate"
         /\ resp'.session \notin DOMAIN session /\ resp'.header = <<>>) =>
          Anonymous(resp') /\ session' = session]_vars
C24_Witness ==
  /\ resp.op = "logout" /\ resp.session = "s1"
  /\ DOMAIN session = {"s2"} /\ session["s2"] = 2
  /\ DOMAIN tokens = {1, 2} /\ ~Expired(tokens[1], now)

\* C25: the session's token value has a stored token and no lookup of the
\* request fails: if its expiresAt equals the current time the request is
\* served as Anonymous with the session entry cleared, and the request is
\* Authenticated only if expiresAt is later than the current time.
C25_ExpiryIsInclusive ==
  (resp.op = "validate" /\ resp.hadToken /\ resp.tkFound /\ ~resp.tokErr /\ ~resp.usrErr) =>
    /\ resp.tk.expiresAt = resp.at => (Anonymous(resp) /\ ~resp.sessionAfter)
    /\ Authenticated(resp) => resp.tk.expiresAt > resp.at

C28_DeleteRouteEndToEnd ==
  [][\A i \in 1..MaxDeleters :
       (/\ Handled(i) /\ deleters[i].via = "route"
        /\ deleters'[i].method = "POST" /\ ~deleters'[i].badForm
        /\ hist'.faults = hist.faults) =>
          LET r == ValidateSessionToken(users, tokens, session, now, deleters[i].session,
                                        deleters[i].header, FALSE, FALSE)
              U == r.ctxUser.id
          IN (Authenticated(r) /\ OccursIn(deleters'[i].id, users[U].notifications)) =>
               /\ deleters[i].ctx.id = U
               /\ deleters'[i].status = StatusOK
               /\ ~OccursIn(deleters'[i].id, users'[U].notifications)]_vars

\* Notification n has been sent to a user who has a row.
SentToStored(n) == n <= Len(hist.enq) /\ hist.enq[n].userID \in DOMAIN users
\* Notification n is in the stored list of the user it was sent to.
Delivered(n) ==
  /\ SentToStored(n)
  /\ OccursIn(n, users[hist.enq[n].userID].notifications)

\* C29: in every run of the scheduled pipeline in which no storage call fails,
\* no row is lost and no request for the list is made, every notification
\* sent to a stored user is, from some time on, always in that user's stored
\* list.
C29_EventualDelivery ==
  [](hist.faults = 0 /\ \A i \in 1..MaxReaders : readers[i].pc = "new") =>
    \A n \in 1..MaxNotifs : [](SentToStored(n) => <>[]Delivered(n))

\* C30: in every run of the loaded channel in which the sender keeps its row:
\* whenever the channel is full and a further createPost request is to send
\* its notification (n sent so far, more to come), that send is made in the
\* end and the request goes on, whoever the queued notifications are for.
C30_BlockedProducersAreReleased ==
  []("u1" \in DOMAIN users) =>
    \A n \in NotifChCap..(NotifChCap + MaxBurst - 1) :
      (Len(queue) = NotifChCap /\ minted = n) ~> (minted > n)

\* The ids of a list are pairwise different.
NoRepeat(list) == \A i, j \in 1..Len(list) : list[i].id = list[j].id => i = j
\* The writes by the dispatcher that have not run yet and end with notification id.
PendingFor(id) == {u \in saves : LastOf(u).id = id}

\* C31: no duplicate delivery.  The ids sent being different, in every state
\* under any interleaving of the dispatcher's appends, the list page's
\* mark-all-read and deletions: no stored list holds an id twice, nor does a
\* list about to be written by the dispatcher; the channel holds the latest
\* sent and nothing the dispatcher took (a notification leaves it once); and
\* a notification has at most one append, which is either still in the
\* channel, or pending once, or written or failed once.
C31_NoDuplicateDelivery ==
  /\ \A u \in DOMAIN users : NoRepeat(users[u].notifications)
  /\ \A u \in saves : NoRepeat(u.notifications)
  /\ QueueIsTailOfSent(queue, hist.enq)
  /\ NoRepeat(queue)
  /\ \A k \in 1..Len(queue) :
       /\ PendingFor(queue[k].id) = {}
       /\ queue[k].id \notin hist.appended \cup hist.lost \cup PersistedIDs(users)
  /\ \A k \in 1..Len(hist.enq) :
       /\ Cardinality(PendingFor(hist.enq[k].id)) <= 1
       /\ PendingFor(hist.enq[k].id) # {} => hist.enq[k].id \notin hist.appended \cup hist.lost
\* All three writers have acted on u1's list: notification 1 was stamped by
\* a mark-all-read at time 2, notification 2 was appended to the list so
\* stamped by the dispatcher, and a deletion was answered with success.
C31_Witness ==
  /\ queue = <<>> /\ saves = {}
  /\ hist.deleted # {}
  /\ users["u1"].notifications =
       <<[id |-> 1, userID |-> "u1", readAt |-> 2], [id |-> 2, userID |-> "u1", readAt |-> 0]>>

\* A record less its notification list.
Account(u) == [id |-> u.id, email |-> u.email, key |-> u.key, handle |-> u.handle,
               password |-> u.password]

\* C32: the dispatcher's frame.  A step in which the dispatcher takes a
\* notification writes no user record and no token record.  A step in which
\* the write for a notification addressed to R runs leaves the token records
\* and every user record but R's as they are; if the write fails R's record is
\* unchanged too; if not, R's record is the one fetched with the notification
\* appended to its list: id, e-mail, key, handle and password hash as fetched,
\* and the same as those stored before the step when R had a record.  A
\* maintenance tick changes no user record, no token record and not the
\* channel.
C32_DispatcherFrame ==
  [][/\ Len(queue') < Len(queue) => (users' = users /\ tokens' = tokens)
     /\ \A user \in saves \ saves' :
          LET R == user.id
              notif == LastOf(user)
          IN /\ notif.userID = R
             /\ tokens' = tokens
             /\ DOMAIN users \ {R} = DOMAIN users' \ {R}
             /\ \A x \in DOMAIN users \ {R} : users'[x] = users[x]
             /\ hist'.faults > hist.faults => users' = users
             /\ hist'.faults = hist.faults =>
                  /\ R \in DOMAIN users'
                  /\ users'[R] = user
                  /\ R \in DOMAIN users => Account(users'[R]) = Account(users[R])
     /\ disp'.tick # disp.tick =>
          (users' = users /\ tokens' = tokens /\ queue' = queue)]_vars
\* The dispatcher wrote u2's record, appending to its list, next to a record
\* of u1 that holds notifications, and a maintenance tick has run.
C32_Witness ==
  /\ "u1" \in DOMAIN users /\ users["u1"].notifications # <<>>
  /\ "u2" \in DOMAIN users /\ users["u2"].notifications # <<>>
  /\ disp.tick = 1

\* C33: a step of createPost that sends a notification also inserts the
\* request's post (the request does not end with "Body is a required field"
\* or "Failed to create post"), so that every notification in the channel or
\* in a list belongs to a post that exists; and the notification is for the
\* author of a parent post that exists.
C33_NotificationOnlyForCreatedPost ==
  [][hist'.enq # hist.enq =>
       /\ Len(posts') = Len(posts) + 1
       /\ \E parent \in 1..Len(posts) :
            hist'.enq[Len(hist'.enq)].userID = posts[parent]]_vars

\* The record stored for an e-mail, if any.
HasAccount(tbl, email) == \E u \in DOMAIN tbl : tbl[u].email = email

\* C34: account creation never overwrites an account.  In every step, under
\* any interleaving of addUserHandler requests: of the requests that carry one
\* e-mail at most one has reported Created; a request that reports Created in
\* the step carries an e-mail that had no record before it; and every record
\* that exists keeps its API key and its password hash.
C34_CreateNeverOverwrites ==
  [][/\ \A i, j \in 1..MaxCreators :
          (/\ creators'[i].status = StatusCreated
           /\ creators'[j].status = StatusCreated
           /\ creators'[i].email = creators'[j].email) => i = j
     /\ \A i \in 1..MaxCreators :
          (creators[i].status # StatusCreated /\ creators'[i].status = StatusCreated)
            => ~HasAccount(users, creators'[i].email)
     /\ \A u \in DOMAIN users :
          /\ u \in DOMAIN users'
          /\ users'[u].key = users[u].key
          /\ users'[u].password = users[u].password]_vars

====
